---- MODULE Spec2Model ----
(***************************************************************************)
(* A model of the rosc OSC codec: the encoder (src/src/encoder.rs), the    *)
(* decoder draft (src/src/osc_decoder.rs) and the data model               *)
(* (src/src/types.rs).                                                     *)
(*                                                                         *)
(* Bytes are the integers 0..255 and byte vectors are sequences of bytes.  *)
(* A Rust String is modelled by its UTF-8 bytes.  A u64 is modelled by     *)
(* four 16-bit limbs, most significant first, so that 64-bit arithmetic    *)
(* keeps its width.  Floats are modelled by their IEEE-754 bit patterns.   *)
(***************************************************************************)
EXTENDS Integers, Sequences, FiniteSets, TLC

VARIABLES
    pc,            \* position of the call being modelled
    overflow_checks, \* whether the build panics on integer overflow
    pos,           \* argument of pad / pad_four (a u64)
    pad_out,       \* outcome of pad(pos)
    pad_pad_out,   \* outcome of pad(pad(pos))
    pad_four_out,  \* outcome of pad_four(pos)
    s,             \* argument of encode_string
    str_out,       \* bytes returned by encode_string(s)
    arg,           \* argument of encode_arg
    arg_out,       \* (bytes, tag) returned by encode_arg(arg)
    packet,        \* argument of encode
    enc_out,       \* result of encode(packet)
    msg,           \* argument of decode
    dec_out,       \* result of decode(msg, size)
    stdout         \* lines printed by decode_message

vars == <<pc, overflow_checks, pos, pad_out, pad_pad_out, pad_four_out, s, str_out,
          arg, arg_out, packet, enc_out, msg, dec_out, stdout>>

-----------------------------------------------------------------------------
(* Bounds of the model.                                                    *)

MaxPos == 24        \* pad inputs are 0..MaxPos and the MaxPos+1 largest u64
MaxStrLen == 4      \* strings passed to encode_string have <= MaxStrLen characters
MaxBlobLen == 5     \* blobs have <= MaxBlobLen bytes
MaxArgs == 2        \* a message has <= MaxArgs arguments
MaxElems == 2       \* a bundle has <= MaxElems elements
MaxNested == 1      \* of which <= MaxNested are bundles (one below the top)
MaxDepth == 2       \* bundles nest to depth <= MaxDepth
MaxBufLen == 3      \* free-form decoder inputs have <= MaxBufLen bytes

-----------------------------------------------------------------------------
(* Byte vectors.                                                           *)

RECURSIVE Zeros(_)
\* vec![0u8; n]
Zeros(n) == IF n <= 0 THEN <<>> ELSE <<0>> \o Zeros(n - 1)

RECURSIVE BigEndian(_, _)
\* byteorder::BigEndian::write_{i32,u32,i64,f32,f64}: the n low-order bytes
\* of the two's-complement representation of x, most significant first
BigEndian(x, n) ==
    IF n = 0 THEN <<>> ELSE BigEndian(x \div 256, n - 1) \o <<x % 256>>

-----------------------------------------------------------------------------
(* 64-bit unsigned integers as four 16-bit limbs, most significant first.  *)

Limb == 65536

U64Max == <<Limb - 1, Limb - 1, Limb - 1, Limb - 1>>

\* `n as u64` for a length 0 <= n < 2^31
AsU64(n) == <<0, 0, n \div Limb, n % Limb>>

\* `p as usize` (64-bit target) for a value below 2^31
AsUsize(p) == p[3] * Limb + p[4]

\* p + k for 0 <= k < 2^16: the wrapped 64-bit sum and whether it overflowed
AddU64(p, k) ==
    LET s4 == p[4] + k
        s3 == p[3] + (s4 \div Limb)
        s2 == p[2] + (s3 \div Limb)
        s1 == p[1] + (s2 \div Limb)
    IN  [val |-> <<s1 % Limb, s2 % Limb, s3 % Limb, s4 % Limb>>,
         overflow |-> s1 \div Limb > 0]

\* p - k for 0 <= k <= p[4] (no borrow needed)
SubSmall(p, k) == <<p[1], p[2], p[3], p[4] - k>>

\* p <= q as unsigned integers
LeqU64(p, q) ==
    \/ p = q
    \/ \E i \in 1..4 : p[i] < q[i] /\ \A j \in 1..(i - 1) : p[j] = q[j]

-----------------------------------------------------------------------------
(* Padding: encoder::pad, encoder::pad_bytes, osc_decoder::pad_four.       *)

\* a plausible slip: the remainder is added instead of its complement
pad_wrong(p) ==
    LET d == p[4] % 4
    IN  IF d = 0 THEN p ELSE AddU64(p, d).val

\* pad(pos): `match pos % 4 { 0 => pos, d => pos + (4 - d) }`, the sum taken
\* modulo 2^64 (what a build without overflow checks returns)
pad(p) ==
    LET d == p[4] % 4
    IN  IF d = 0 THEN p ELSE AddU64(p, 4 - d).val

\* whether `pos + (4 - d)` overflows u64: a build with overflow checks
\* panics there, one without returns the wrapped sum
pad_overflows(p) ==
    LET d == p[4] % 4
    IN  d # 0 /\ AddU64(p, 4 - d).overflow

\* pad_four(pos): `let d = pos % 4; match d { 0 => pos, _ => pos + (4 - d) }`
pad_four(p) ==
    LET d == p[4] % 4
    IN  IF d = 0 THEN p ELSE AddU64(p, 4 - d).val

pad_four_overflows(p) ==
    LET d == p[4] % 4
    IN  d # 0 /\ AddU64(p, 4 - d).overflow

RECURSIVE PushZerosUpTo(_, _)
\* `while bytes.len() < n { bytes.push(0u8) }`
PushZerosUpTo(bytes, n) ==
    IF Len(bytes) < n THEN PushZerosUpTo(Append(bytes, 0), n) ELSE bytes

\* pad_bytes(&mut bytes): the vector after the call
pad_bytes(bytes) ==
    LET padded_lengh == pad(AsU64(Len(bytes)))
    IN  PushZerosUpTo(bytes, AsUsize(padded_lengh))

\* a plausible slip: the terminator is pushed after padding
encode_string_wrong(str) == Append(pad_bytes(str), 0)

\* encode_string(s): the bytes of s, a NUL, then padding
encode_string(str) == pad_bytes(Append(str, 0))

-----------------------------------------------------------------------------
(* The data model of types.rs.  Option<T> is a sequence of length 0 (None) *)
(* or 1 (Some).  The Array variant of OscType has no arm in encode_arg and *)
(* is not part of the encoder's domain.                                    *)

None == <<>>
Some(v) == <<v>>

Int32(x) == [tag |-> "Int", i |-> x]
Long(x) == [tag |-> "Long", i |-> x]
Float(bits) == [tag |-> "Float", bits |-> bits]
Double(hi, lo) == [tag |-> "Double", hi |-> hi, lo |-> lo]
Char(c) == [tag |-> "Char", c |-> c]
String(str) == [tag |-> "String", s |-> str]
Blob(b) == [tag |-> "Blob", b |-> b]
Time(sec, frac) == [tag |-> "Time", sec |-> sec, frac |-> frac]
Midi(port, status, data1, data2) ==
    [tag |-> "Midi", port |-> port, status |-> status,
     data1 |-> data1, data2 |-> data2]
Color(red, green, blue, alpha) ==
    [tag |-> "Color", red |-> red, green |-> green,
     blue |-> blue, alpha |-> alpha]
Bool(v) == [tag |-> "Bool", v |-> v]
Nil == [tag |-> "Nil"]
Inf == [tag |-> "Inf"]

OscMessage(addr, args) == [kind |-> "Message", addr |-> addr, args |-> args]
OscBundle(timetag, content) ==
    [kind |-> "Bundle", timetag |-> timetag, content |-> content]

\* types::Result<Vec<u8>>
Ok(bytes) == [ok |-> TRUE, bytes |-> bytes, err |-> ""]
Err(e) == [ok |-> FALSE, bytes |-> <<>>, err |-> e]

BadBundleMissingTimeTag == "BadBundle(Missing time tag!)"

\* the ASCII code of a type tag character
TagChar(c) ==
    CASE c = "i" -> 105 [] c = "h" -> 104 [] c = "f" -> 102 [] c = "d" -> 100
      [] c = "c" -> 99  [] c = "s" -> 115 [] c = "b" -> 98  [] c = "t" -> 116
      [] c = "m" -> 109 [] c = "r" -> 114 [] c = "T" -> 84  [] c = "F" -> 70
      [] c = "N" -> 78  [] c = "I" -> 73

Comma == 44
BundleTag == <<35, 98, 117, 110, 100, 108, 101>>   \* "#bundle"

-----------------------------------------------------------------------------
(* The encoder.                                                            *)

\* encode_time_tag(sec, frac)
encode_time_tag(sec, frac) == BigEndian(sec, 4) \o BigEndian(frac, 4)

\* a plausible slip: the prefix holds the padded length
encode_blob_wrong(x) ==
    LET padded_blob_length == AsUsize(pad(AsU64(Len(x))))
        length == BigEndian(padded_blob_length, 4)
    IN  [i \in 1..(4 + padded_blob_length) |->
            IF i <= 4 THEN length[i]
            ELSE IF i - 4 <= Len(x) THEN x[i - 4] ELSE 0]

\* the Blob arm of encode_arg: a zeroed vector of 4 + pad(len) bytes, the
\* length written into its first four bytes, the blob copied in behind it
encode_blob(x) ==
    LET padded_blob_length == AsUsize(pad(AsU64(Len(x))))
        length == BigEndian(Len(x), 4)
    IN  [i \in 1..(4 + padded_blob_length) |->
            IF i <= 4 THEN length[i]
            ELSE IF i - 4 <= Len(x) THEN x[i - 4] ELSE 0]

\* encode_arg(arg): the optional payload bytes and the type tag
encode_arg(a) ==
    CASE a.tag = "Int" ->
            [bytes |-> Some(BigEndian(a.i, 4)), tag |-> TagChar("i")]
      [] a.tag = "Long" ->
            [bytes |-> Some(BigEndian(a.i, 8)), tag |-> TagChar("h")]
      [] a.tag = "Float" ->
            [bytes |-> Some(BigEndian(a.bits, 4)), tag |-> TagChar("f")]
      [] a.tag = "Double" ->
            [bytes |-> Some(BigEndian(a.hi, 4) \o BigEndian(a.lo, 4)),
             tag |-> TagChar("d")]
      [] a.tag = "Char" ->
            [bytes |-> Some(BigEndian(a.c, 4)), tag |-> TagChar("c")]
      [] a.tag = "String" ->
            [bytes |-> Some(encode_string(a.s)), tag |-> TagChar("s")]
      [] a.tag = "Blob" ->
            [bytes |-> Some(encode_blob(a.b)), tag |-> TagChar("b")]
      [] a.tag = "Time" ->
            [bytes |-> Some(encode_time_tag(a.sec, a.frac)),
             tag |-> TagChar("t")]
      [] a.tag = "Midi" ->
            [bytes |-> Some(<<a.port, a.status, a.data1, a.data2>>),
             tag |-> TagChar("m")]
      [] a.tag = "Color" ->
            [bytes |-> Some(<<a.red, a.green, a.blue, a.alpha>>),
             tag |-> TagChar("r")]
      [] a.tag = "Bool" ->
            [bytes |-> None, tag |-> IF a.v THEN TagChar("T") ELSE TagChar("F")]
      [] a.tag = "Nil" -> [bytes |-> None, tag |-> TagChar("N")]
      [] a.tag = "Inf" -> [bytes |-> None, tag |-> TagChar("I")]

RECURSIVE encode_args(_, _, _)
\* the loop of encode_message over args[i..]: the type tags and the
\* argument bytes accumulated so far, extended by every remaining argument
encode_args(args, type_tags, arg_bytes) ==
    IF args = <<>> THEN [type_tags |-> type_tags, arg_bytes |-> arg_bytes]
    ELSE LET e == encode_arg(Head(args))
         IN  encode_args(Tail(args),
                         Append(type_tags, e.tag),
                         IF e.bytes # None THEN arg_bytes \o e.bytes[1]
                                           ELSE arg_bytes)

\* a plausible slip: a tag is pushed only for arguments that have bytes
encode_message_wrong(m) ==
    LET addr_bytes == encode_string(m.addr)
        args == IF m.args # None THEN m.args[1] ELSE <<>>
        with_bytes == SelectSeq(args, LAMBDA a : encode_arg(a).bytes # None)
        loop == encode_args(with_bytes, <<Comma>>, <<>>)
    IN  Ok(addr_bytes \o encode_string(loop.type_tags) \o loop.arg_bytes)

\* encode_message(msg)
encode_message(m) ==
    LET addr_bytes == encode_string(m.addr)
        loop == IF m.args # None
                THEN encode_args(m.args[1], <<Comma>>, <<>>)
                ELSE [type_tags |-> <<Comma>>, arg_bytes |-> <<>>]
        msg_bytes == addr_bytes \o encode_string(loop.type_tags)
    IN  Ok(IF loop.arg_bytes # <<>> THEN msg_bytes \o loop.arg_bytes
                                    ELSE msg_bytes)

RECURSIVE encode_bundle(_)
RECURSIVE encode_content(_, _)
RECURSIVE encode_content_wrong(_, _)

\* a plausible slip: the length prefix counts its own four bytes
encode_content_wrong(content, bundle_bytes) ==
    IF content = <<>> THEN Ok(bundle_bytes)
    ELSE LET p == Head(content)
             e == IF p.kind = "Message" THEN encode_message(p)
                                        ELSE encode_bundle(p)
         IN  IF ~e.ok THEN e
             ELSE encode_content_wrong(Tail(content),
                      bundle_bytes \o BigEndian(Len(e.bytes) + 4, 4) \o e.bytes)

\* the loop of encode_bundle over content[..]: every element is encoded,
\* prefixed by its length as a big-endian u32 and appended; the first
\* element that fails to encode ends the call with its error (try!)
encode_content(content, bundle_bytes) ==
    IF content = <<>> THEN Ok(bundle_bytes)
    ELSE LET p == Head(content)
             e == IF p.kind = "Message" THEN encode_message(p)
                                        ELSE encode_bundle(p)
         IN  IF ~e.ok THEN e
             ELSE encode_content(Tail(content),
                      bundle_bytes \o BigEndian(Len(e.bytes), 4) \o e.bytes)

\* encode_bundle(bundle)
encode_bundle(b) ==
    LET header == encode_string(BundleTag)
        t == encode_arg(b.timetag)
    IN  IF t.bytes = None THEN Err(BadBundleMissingTimeTag)
        ELSE LET bundle_bytes == header \o t.bytes[1]
             IN  IF b.content = <<>> THEN Ok(bundle_bytes \o Zeros(4))
                 ELSE encode_content(b.content, bundle_bytes)

\* encode(packet)
encode(p) ==
    IF p.kind = "Message" THEN encode_message(p) ELSE encode_bundle(p)

-----------------------------------------------------------------------------
(* The decoder draft of osc_decoder.rs.                                    *)

Slash == 47
Hash == 35

Cont(b) == b \in 128..191

RECURSIVE Utf8Valid(_)
\* String::from_utf8(bytes).is_ok(): bytes is a well-formed UTF-8 sequence
Utf8Valid(b) ==
    IF b = <<>> THEN TRUE
    ELSE LET n == Len(b)
             rest(k) == SubSeq(b, k + 1, n)
         IN  CASE b[1] <= 127 -> Utf8Valid(rest(1))
               [] b[1] \in 194..223 ->
                    n >= 2 /\ Cont(b[2]) /\ Utf8Valid(rest(2))
               [] b[1] \in 224..239 ->
                    /\ n >= 3 /\ Cont(b[2]) /\ Cont(b[3])
                    /\ (b[1] = 224 => b[2] >= 160)
                    /\ (b[1] = 237 => b[2] <= 159)
                    /\ Utf8Valid(rest(3))
               [] b[1] \in 240..244 ->
                    /\ n >= 4 /\ Cont(b[2]) /\ Cont(b[3]) /\ Cont(b[4])
                    /\ (b[1] = 240 => b[2] >= 144)
                    /\ (b[1] = 244 => b[2] <= 143)
                    /\ Utf8Valid(rest(4))
               [] OTHER -> FALSE

RECURSIVE read_until(_, _, _)
\* BufRead::read_until(delim, &mut buf) on a Cursor at `position`: the number
\* of bytes read, up to and including the first delim or up to the end
read_until(buf, position, delim) ==
    IF position >= Len(buf) THEN 0
    ELSE IF buf[position + 1] = delim THEN 1
    ELSE 1 + read_until(buf, position + 1, delim)

\* read_osc_string(cursor): the String result and the cursor position after
\* the call; reading from a Cursor over a slice cannot fail, so the ReadError
\* arm is never taken
read_osc_string(buf, position) ==
    LET n == read_until(buf, position, 0)
        str_buf == SubSeq(buf, position + 1, position + n)
    IN  [ok |-> Utf8Valid(str_buf),
         s |-> IF Utf8Valid(str_buf) THEN str_buf ELSE <<>>,
         err |-> IF Utf8Valid(str_buf) THEN "" ELSE "StringError",
         position |-> position + n]

\* the value `OscPacket::Message(OscMessage)` the draft returns: a message
\* that carries neither an address nor arguments
PlaceholderMessage == [kind |-> "Message"]

DecodeOk(p) == [res |-> "Ok", packet |-> Some(p), err |-> ""]
DecodeErr(e) == [res |-> "Err", packet |-> None, err |-> e]
DecodePanic(e) == [res |-> "Panic", packet |-> None, err |-> e]

\* decode_message(msg, size): the value returned and the lines printed
decode_message(m, size) ==
    LET r == read_osc_string(m, 0)
    IN  [ret |-> DecodeOk(PlaceholderMessage),
         out |-> IF r.ok
                 THEN <<[fmt |-> "{}, {}", addr |-> r.s,
                         pos |-> pad_four(AsU64(r.position))]>>
                 ELSE <<[fmt |-> "{}", e |-> r.err]>>]

\* decode_bundle(msg)
decode_bundle(m) == [ret |-> DecodeErr("BadOscBundle"), out |-> <<>>]

\* decode(msg, size): `msg[0]` panics on an empty slice
decode(m, size) ==
    IF Len(m) = 0
    THEN [ret |-> DecodePanic("index out of bounds"), out |-> <<>>]
    ELSE CASE m[1] = Slash -> decode_message(m, size)
           [] m[1] = Hash -> decode_bundle(m)
           [] OTHER -> [ret |-> DecodeErr("BadOscPacket(Unknown message format.)"),
                        out |-> <<>>]

-----------------------------------------------------------------------------
(* The inputs the calls are made with.                                     *)

MinI32 == (-2147483647) - 1
MaxI32 == 2147483647

\* pad inputs: the smallest and the largest u64 values
PadInputs ==
    {AsU64(n) : n \in 0..MaxPos} \cup {SubSmall(U64Max, n) : n \in 0..MaxPos}

\* characters of the strings: NUL, '/', 'a', and the two-byte 'e-acute'
Chars == {<<0>>, <<47>>, <<97>>, <<195, 169>>}

RECURSIVE StringsUpTo(_)
\* the strings of at most n characters
StringsUpTo(n) ==
    IF n = 0 THEN {<<>>}
    ELSE LET shorter == StringsUpTo(n - 1)
         IN  shorter \cup {c \o t : c \in Chars, t \in shorter}

Strings == StringsUpTo(MaxStrLen)

BlobBytes == {0, 7, 255}

Blobs == UNION {[1..n -> BlobBytes] : n \in 0..MaxBlobLen}

Hi == <<104, 105, 33>>                                \* "hi!"
Ping == <<47, 112, 105, 110, 103>>                    \* "/ping"
GreetMe == <<47, 103, 114, 101, 101, 116, 47, 109, 101>>   \* "/greet/me"
Ab == <<47, 97, 98>>                                  \* "/ab"

\* the values encode_arg is called with on its own
Args ==
    {Int32(x) : x \in {MinI32, -1, 0, 1, 256, MaxI32}}
    \cup {Long(x) : x \in {MinI32, -1, 0, 258}}
    \cup {Float(x) : x \in {0, 1065353216, -1082130432}}
    \cup {Double(1072693248, 0), Double(-1074790400, 1)}
    \cup {Char(c) : c \in {97, 233, 128512}}
    \cup {String(x) : x \in StringsUpTo(2) \cup {Hi}}
    \cup {Blob(x) : x \in Blobs}
    \cup {Time(0, 1), Time(1, 2), Time(MaxI32, 65536)}
    \cup {Midi(1, 144, 60, 127), Color(255, 0, 128, 64)}
    \cup {Bool(TRUE), Bool(FALSE), Nil, Inf}

\* the values that appear as message arguments
MsgArgs ==
    {Int32(-2), Long(258), Float(1065353216), Double(1072693248, 0),
     Char(97), String(Hi), String(<<>>), Blob(<<>>),
     Blob([i \in 1..MaxBlobLen |-> i]), Time(1, 2),
     Midi(1, 144, 60, 127), Color(255, 0, 128, 64),
     Bool(TRUE), Bool(FALSE), Nil, Inf}

ArgLists == UNION {[1..n -> MsgArgs] : n \in 0..MaxArgs}

Messages ==
    {OscMessage(a, args) : a \in {Ping, GreetMe, Ab},
                           args \in {None} \cup {Some(l) : l \in ArgLists}}

\* the messages that appear as bundle elements
ElementMessages ==
    {OscMessage(Ping, None), OscMessage(GreetMe, Some(<<String(Hi)>>))}

\* the values that appear in a bundle's timetag field
TimeTags == {Time(1, 2), Time(MaxI32, 65536), Int32(5), String(Hi), Nil}

RECURSIVE Contents(_, _, _, _)
\* the element sequences of length n over the messages msgs and the bundles
\* bundles, at most k of the elements being bundles
Contents(n, k, msgs, bundles) ==
    IF n = 0 THEN {<<>>}
    ELSE {<<m>> \o t : m \in msgs, t \in Contents(n - 1, k, msgs, bundles)}
         \cup (IF k = 0 THEN {}
               ELSE {<<b>> \o t : b \in bundles,
                                  t \in Contents(n - 1, k - 1, msgs, bundles)})

RECURSIVE Chains(_)
\* the bundles that appear as bundle elements: nested to depth at most d,
\* each holding "/ping" messages and at most one bundle; the innermost may
\* be a bundle that fails to encode
Chains(d) ==
    IF d = 0 THEN {}
    ELSE LET inner == Chains(d - 1)
             contents == UNION {Contents(n, 1, {OscMessage(Ping, None)}, inner) :
                                   n \in 0..MaxElems}
         IN  {OscBundle(Time(1, 2), c) : c \in contents}
             \cup {OscBundle(Nil, <<>>)}

\* the bundles encode is called with: every shape under one time tag, and
\* every timetag value over the simplest shapes
Bundles ==
    LET inner == Chains(MaxDepth - 1)
        contents == UNION {Contents(n, MaxNested, ElementMessages, inner) :
                              n \in 0..MaxElems}
    IN  {OscBundle(Time(1, 2), c) : c \in contents}
        \cup {OscBundle(tt, c) : tt \in TimeTags,
                                 c \in {<<>>, <<OscMessage(Ping, None)>>}}

Packets == Messages \cup Bundles

\* the packets whose encodings, cut short, are fed to the decoder
SamplePackets ==
    ElementMessages
    \cup {OscBundle(Time(1, 2), <<OscMessage(Ping, None)>>)}

Prefixes(b) == {SubSeq(b, 1, n) : n \in 0..Len(b)}

BufBytes == {0, Slash, Hash, 97, 195, 169}

\* decoder inputs: every short buffer, and every prefix of a valid encoding
Buffers ==
    UNION {[1..n -> BufBytes] : n \in 0..MaxBufLen}
    \cup UNION {Prefixes(encode(p).bytes) : p \in SamplePackets}

-----------------------------------------------------------------------------
(* The calls.                                                              *)

NoU64 == [st |-> "none", val |-> AsU64(0)]
Value(v) == [st |-> "val", val |-> v]
Panicked == [st |-> "panic", val |-> AsU64(0)]

NoResult == [ok |-> FALSE, bytes |-> <<>>, err |-> "not called"]
NoArgOut == [bytes |-> None, tag |-> 0]
NoDecode == [res |-> "none", packet |-> None, err |-> ""]

\* the variables of the calls a specification does not make
IdlePad ==
    /\ pos = AsU64(0) /\ pad_out = NoU64
    /\ pad_pad_out = NoU64 /\ pad_four_out = NoU64
IdleString == s = <<>> /\ str_out = <<>>
IdleArg == arg = Nil /\ arg_out = NoArgOut
IdleEncode == packet = OscMessage(<<>>, None) /\ enc_out = NoResult
IdleDecode == msg = <<>> /\ dec_out = NoDecode /\ stdout = <<>>

\* the outcome of an addition that overflows when `overflows` holds: a panic
\* in a build with overflow checks, the wrapped sum in one without
Outcome(overflows, wrapped) ==
    IF overflows /\ overflow_checks THEN Panicked ELSE Value(wrapped)

CallPad ==
    /\ pc = "pad" /\ pad_out.st = "none"
    /\ pad_out' = Outcome(pad_overflows(pos), pad(pos))
    /\ UNCHANGED <<pc, overflow_checks, pos, pad_pad_out, pad_four_out, s, str_out, arg,
                   arg_out, packet, enc_out, msg, dec_out, stdout>>

CallPadAgain ==
    /\ pc = "pad" /\ pad_out.st = "val" /\ pad_pad_out.st = "none"
    /\ pad_pad_out' = Outcome(pad_overflows(pad_out.val), pad(pad_out.val))
    /\ UNCHANGED <<pc, overflow_checks, pos, pad_out, pad_four_out, s, str_out, arg,
                   arg_out, packet, enc_out, msg, dec_out, stdout>>

CallPadFour ==
    /\ pc = "pad" /\ pad_four_out.st = "none"
    /\ pad_four_out' = Outcome(pad_four_overflows(pos), pad_four(pos))
    /\ UNCHANGED <<pc, overflow_checks, pos, pad_out, pad_pad_out, s, str_out, arg,
                   arg_out, packet, enc_out, msg, dec_out, stdout>>

CallEncodeString ==
    /\ pc = "string"
    /\ str_out' = encode_string(s)
    /\ pc' = "string done"
    /\ UNCHANGED <<overflow_checks, pos, pad_out, pad_pad_out, pad_four_out, s, arg,
                   arg_out, packet, enc_out, msg, dec_out, stdout>>

CallEncodeArg ==
    /\ pc = "arg"
    /\ arg_out' = encode_arg(arg)
    /\ pc' = "arg done"
    /\ UNCHANGED <<overflow_checks, pos, pad_out, pad_pad_out, pad_four_out, s, str_out,
                   arg, packet, enc_out, msg, dec_out, stdout>>

CallEncode ==
    /\ pc = "packet"
    /\ enc_out' = encode(packet)
    /\ pc' = "encoded"
    /\ UNCHANGED <<overflow_checks, pos, pad_out, pad_pad_out, pad_four_out, s, str_out,
                   arg, arg_out, packet, msg, dec_out, stdout>>

\* the encoded bytes are handed to the decoder
Receive ==
    /\ pc = "encoded" /\ enc_out.ok
    /\ msg' = enc_out.bytes
    /\ pc' = "received"
    /\ UNCHANGED <<overflow_checks, pos, pad_out, pad_pad_out, pad_four_out, s, str_out,
                   arg, arg_out, packet, enc_out, dec_out, stdout>>

CallDecode ==
    /\ pc = "received"
    /\ LET d == decode(msg, Len(msg))
       IN  dec_out' = d.ret /\ stdout' = stdout \o d.out
    /\ pc' = "decoded"
    /\ UNCHANGED <<overflow_checks, pos, pad_out, pad_pad_out, pad_four_out, s, str_out,
                   arg, arg_out, packet, enc_out, msg>>

-----------------------------------------------------------------------------
(* The specifications: one per entry point.                                *)

\* encode(packet), then decode of the bytes it returned
Init ==
    /\ pc = "packet" /\ overflow_checks \in BOOLEAN
    /\ packet \in Packets /\ enc_out = NoResult
    /\ IdlePad /\ IdleString /\ IdleArg /\ IdleDecode
Next == CallEncode \/ Receive \/ CallDecode
Spec == Init /\ [][Next]_vars

\* pad(pos), pad(pad(pos)) and pad_four(pos)
InitPad ==
    /\ pc = "pad" /\ overflow_checks \in BOOLEAN
    /\ pos \in PadInputs
    /\ pad_out = NoU64 /\ pad_pad_out = NoU64 /\ pad_four_out = NoU64
    /\ IdleString /\ IdleArg /\ IdleEncode /\ IdleDecode
NextPad == CallPad \/ CallPadAgain \/ CallPadFour
SpecPad == InitPad /\ [][NextPad]_vars

\* encode_string(s)
InitString ==
    /\ pc = "string" /\ overflow_checks \in BOOLEAN
    /\ s \in Strings /\ str_out = <<>>
    /\ IdlePad /\ IdleArg /\ IdleEncode /\ IdleDecode
NextString == CallEncodeString
SpecString == InitString /\ [][NextString]_vars

\* encode_arg(arg)
InitArg ==
    /\ pc = "arg" /\ overflow_checks \in BOOLEAN
    /\ arg \in Args /\ arg_out = NoArgOut
    /\ IdlePad /\ IdleString /\ IdleEncode /\ IdleDecode
NextArg == CallEncodeArg
SpecArg == InitArg /\ [][NextArg]_vars

\* decode(msg, size) on an arbitrary buffer
InitDecode ==
    /\ pc = "received" /\ overflow_checks \in BOOLEAN
    /\ msg \in Buffers
    /\ dec_out = NoDecode /\ stdout = <<>>
    /\ IdlePad /\ IdleString /\ IdleArg /\ IdleEncode
NextDecode == CallDecode
SpecDecode == InitDecode /\ [][NextDecode]_vars

-----------------------------------------------------------------------------
(* Properties of padding (SpecPad).                                        *)

Mult4(v) == v[4] % 4 = 0

\* v is the smallest multiple of 4 that is >= n, as unsigned integers
SmallestMultipleOf4AtLeast(n, v) ==
    /\ Mult4(v)
    /\ LeqU64(n, v)
    /\ \A k \in 0..3 :
          LET c == AddU64(n, k)
          IN  (~c.overflow /\ Mult4(c.val)) => LeqU64(v, c.val)

\* v = n when n % 4 = 0, and v = n + (4 - n % 4) otherwise, the sum being
\* the mathematical one
ClosedForm(n, v) ==
    LET d == n[4] % 4
        c == AddU64(n, 4 - d)
    IN  IF d = 0 THEN v = n ELSE ~c.overflow /\ v = c.val

PadIsSmallestMultiple ==
    pad_out.st # "none" =>
        /\ pad_out.st = "val"
        /\ SmallestMultipleOf4AtLeast(pos, pad_out.val)
        /\ ClosedForm(pos, pad_out.val)

PadIdempotent == pad_pad_out.st # "none" => pad_pad_out = pad_out

PadFourAgrees ==
    (pad_out.st # "none" /\ pad_four_out.st # "none") => pad_four_out = pad_out

\* C2 as stated: for every unsigned n, pad(n) is the smallest multiple of 4
\* that is >= n (n itself when n % 4 = 0, n + (4 - n % 4) otherwise),
\* pad(pad(n)) = pad(n), and pad_four(n) = pad(n).
C2_PadEveryUnsigned ==
    PadIsSmallestMultiple /\ PadIdempotent /\ PadFourAgrees

\* C2, amended: for every n <= 2^64 - 4 (every n whose padded value fits in
\* 64 bits), pad(n) is the smallest multiple of 4 that is >= n, given by the
\* closed form; whenever pad(n) returns, pad(pad(n)) = pad(n); and pad_four
\* has the same outcome as pad for every n.
C2_PadWithinRange ==
    /\ LeqU64(pos, SubSmall(U64Max, 3)) => PadIsSmallestMultiple
    /\ PadIdempotent
    /\ PadFourAgrees

\* a value close to 2^64 that is not a multiple of 4 has been padded, padded
\* again, and padded by the decoder's helper
C2_Witness ==
    /\ pos[1] = Limb - 1 /\ pos[4] % 4 = 1
    /\ LeqU64(pos, SubSmall(U64Max, 3))
    /\ pad_out.st = "val" /\ pad_out.val # pos
    /\ pad_pad_out.st = "val" /\ pad_four_out.st = "val"

-----------------------------------------------------------------------------
(* Properties of encode_string (SpecString).                               *)

\* C7: encode_string(s) is the bytes of s followed only by NUL bytes, at
\* least one and at most four of them, and its length is a positive multiple
\* of 4 equal to pad(len(s) + 1).
C7_StringNulPadded ==
    pc = "string done" =>
        LET n == Len(s)
            total == Len(str_out)
        IN  /\ total >= n
            /\ SubSeq(str_out, 1, n) = s
            /\ \A i \in (n + 1)..total : str_out[i] = 0
            /\ total - n \in 1..4
            /\ total > 0 /\ total % 4 = 0
            /\ AsU64(total) = pad(AsU64(n + 1))

\* a string whose length is already a multiple of 4 has been encoded
C7_Witness ==
    /\ pc = "string done"
    /\ Len(s) = 4 /\ s[4] # 0
    /\ Len(str_out) = 8

-----------------------------------------------------------------------------
(* Properties of encode_arg (SpecArg).                                     *)

\* the unsigned integer held big-endian in the four bytes b[off+1..off+4],
\* for values below 2^31
U32At(b, off) ==
    ((b[off + 1] * 256 + b[off + 2]) * 256 + b[off + 3]) * 256 + b[off + 4]

\* the smallest multiple of 4 that is >= n, on the integers
RoundUp4(n) == 4 * ((n + 3) \div 4)

\* C8: a blob of n bytes is encoded in 4 + pad(n) bytes: the count n as a
\* big-endian 32-bit prefix, the n bytes unchanged, then pad(n) - n zero
\* bytes that the prefix does not count.
C8_BlobLayout ==
    (pc = "arg done" /\ arg.tag = "Blob") =>
        /\ arg_out.bytes # None
        /\ arg_out.tag = TagChar("b")
        /\ LET n == Len(arg.b)
               out == arg_out.bytes[1]
           IN  /\ Len(out) = 4 + RoundUp4(n)
               /\ AsU64(Len(out) - 4) = pad(AsU64(n))
               /\ U32At(out, 0) = n
               /\ SubSeq(out, 5, 4 + n) = arg.b
               /\ \A i \in (5 + n)..Len(out) : out[i] = 0

\* a blob whose length is not a multiple of 4 and whose last byte is not
\* zero has been encoded
C8_Witness ==
    /\ pc = "arg done" /\ arg.tag = "Blob"
    /\ Len(arg.b) = 5 /\ arg.b[5] = 255
    /\ arg_out.bytes # None

-----------------------------------------------------------------------------
(* Properties of encode (Spec).                                            *)

RECURSIVE Concat(_)
\* the concatenation of a sequence of byte vectors
Concat(ss) == IF ss = <<>> THEN <<>> ELSE Head(ss) \o Concat(Tail(ss))

\* str followed by one to four NUL bytes up to the next multiple of 4
NulPadded(str) == str \o Zeros(4 - (Len(str) % 4))

\* the type tag character the wire format assigns to a value
WireTag(a) ==
    CASE a.tag = "Int" -> "i"   [] a.tag = "Long" -> "h"
      [] a.tag = "Float" -> "f" [] a.tag = "Double" -> "d"
      [] a.tag = "Char" -> "c"  [] a.tag = "String" -> "s"
      [] a.tag = "Blob" -> "b"  [] a.tag = "Time" -> "t"
      [] a.tag = "Midi" -> "m"  [] a.tag = "Color" -> "r"
      [] a.tag = "Bool" -> (IF a.v THEN "T" ELSE "F")
      [] a.tag = "Nil" -> "N"   [] a.tag = "Inf" -> "I"

\* the number of payload bytes the wire format assigns to a value
WireSize(a) ==
    CASE a.tag \in {"Int", "Float", "Char", "Midi", "Color"} -> 4
      [] a.tag \in {"Long", "Double", "Time"} -> 8
      [] a.tag = "String" -> RoundUp4(Len(a.s) + 1)
      [] a.tag = "Blob" -> 4 + RoundUp4(Len(a.b))
      [] a.tag \in {"Bool", "Nil", "Inf"} -> 0

\* the payload bytes of a value: those encode_arg returns, none if it
\* returns None
Payload(a) ==
    LET e == encode_arg(a) IN IF e.bytes = None THEN <<>> ELSE e.bytes[1]

ArgsOf(m) == IF m.args = None THEN <<>> ELSE m.args[1]

\* the bytes of message m are laid out as address, type tags, payloads
MessageLayout(m, bytes) ==
    LET args == ArgsOf(m)
        tags == <<Comma>> \o [i \in 1..Len(args) |-> TagChar(WireTag(args[i]))]
    IN  /\ \A i \in 1..Len(args) : Len(Payload(args[i])) = WireSize(args[i])
        /\ bytes = NulPadded(m.addr) \o NulPadded(tags)
                   \o Concat([i \in 1..Len(args) |-> Payload(args[i])])
        /\ args = <<>> => bytes = NulPadded(m.addr) \o <<Comma, 0, 0, 0>>

PingBytes == Ping \o <<0, 0, 0>> \o <<Comma, 0, 0, 0>>
GreetMeBytes ==
    GreetMe \o <<0, 0, 0>> \o <<Comma, 115, 0, 0>> \o Hi \o <<0>>

\* C3: a message encodes to the padded address, the padded type tag string
\* (a comma and one tag per argument, in order), then the payloads in
\* argument order, with no bytes for T, F, N and I; without arguments the
\* address is followed by ",\0\0\0"; "/ping" gives 12 bytes and "/greet/me"
\* with String("hi!") gives 20.
C3_MessageLayout ==
    (pc # "packet" /\ packet.kind = "Message") =>
        /\ enc_out.ok
        /\ MessageLayout(packet, enc_out.bytes)
        /\ (packet.addr = Ping /\ ArgsOf(packet) = <<>>) =>
              (Len(enc_out.bytes) = 12 /\ enc_out.bytes = PingBytes)
        /\ (packet.addr = GreetMe /\ ArgsOf(packet) = <<String(Hi)>>) =>
              (Len(enc_out.bytes) = 20 /\ enc_out.bytes = GreetMeBytes)

\* a message with a payload-free argument before one with a payload has
\* been encoded
C3_Witness ==
    /\ pc = "encoded" /\ packet.kind = "Message"
    /\ ArgsOf(packet) = <<Bool(TRUE), String(Hi)>>
    /\ enc_out.ok

RECURSIVE Frames(_, _)
\* the byte vector read from offset off as length-prefixed elements: the
\* sequence of [len, bytes] read, or <<"malformed">> at its end if a prefix or
\* an element runs past the end
Frames(bytes, off) ==
    IF off = Len(bytes) THEN <<>>
    ELSE IF off + 4 > Len(bytes) THEN <<[len |-> -1, bytes |-> <<>>]>>
    ELSE LET n == U32At(bytes, off)
         IN  IF off + 4 + n > Len(bytes) THEN <<[len |-> -1, bytes |-> <<>>]>>
             ELSE <<[len |-> n, bytes |-> SubSeq(bytes, off + 5, off + 4 + n)]>>
                  \o Frames(bytes, off + 4 + n)

RECURSIVE Framed(_, _)
\* bytes, the encoding of the non-empty bundle b, holds after the header
\* and the timetag exactly the elements of b, in order, each behind its own
\* encoded length, and so does every non-empty bundle among the elements
Framed(b, bytes) ==
    LET start == 8 + Len(Payload(b.timetag))
        fs == Frames(bytes, start)
    IN  /\ Len(fs) = Len(b.content)
        /\ \A i \in 1..Len(b.content) :
              LET e == b.content[i]
                  own == encode(e)
              IN  /\ own.ok
                  /\ fs[i].len = Len(own.bytes)
                  /\ fs[i].bytes = own.bytes
                  /\ (e.kind = "Bundle" /\ e.content # <<>>) =>
                        Framed(e, fs[i].bytes)

\* C4: in the encoding of a non-empty bundle, at every depth, every element
\* appears in element order as a 4-byte big-endian length followed by
\* exactly that many bytes, the length being the size of the element's own
\* encoding.
C4_ElementsLengthPrefixed ==
    (pc # "packet" /\ enc_out.ok /\ packet.kind = "Bundle"
        /\ packet.content # <<>>) => Framed(packet, enc_out.bytes)

\* a bundle holding a message and a non-empty bundle has been encoded
C4_Witness ==
    /\ pc = "encoded" /\ enc_out.ok
    /\ packet.kind = "Bundle" /\ Len(packet.content) = 2
    /\ packet.content[1].kind = "Message"
    /\ packet.content[2].kind = "Bundle"
    /\ packet.content[2].content # <<>>

HeaderBytes == BundleTag \o <<0>>

\* C5: a bundle without elements encodes to the 8-byte header and the
\* 8-byte time tag, 16 bytes, and nothing after them.
C5_EmptyBundleSixteenBytes ==
    (pc # "packet" /\ packet.kind = "Bundle" /\ packet.content = <<>>
        /\ packet.timetag.tag = "Time") =>
        /\ enc_out.ok
        /\ Len(enc_out.bytes) = 16
        /\ enc_out.bytes = HeaderBytes \o Payload(packet.timetag)

\* C6: encoding a bundle either fails with the missing-time-tag error and
\* no bytes, or succeeds with "#bundle\0" and then the seconds and fraction
\* of the time tag as two big-endian 32-bit halves; a bundle whose timetag
\* field holds anything but a time tag is never encoded successfully.
C6_BundleNeedsTimeTag ==
    (pc # "packet" /\ packet.kind = "Bundle") =>
        \/ enc_out = Err(BadBundleMissingTimeTag)
        \/ /\ enc_out.ok
           /\ packet.timetag.tag = "Time"
           /\ SubSeq(enc_out.bytes, 1, 8) = HeaderBytes
           /\ U32At(enc_out.bytes, 8) = packet.timetag.sec
           /\ U32At(enc_out.bytes, 12) = packet.timetag.frac

\* C1: decode of the bytes encode(p) returned succeeds with a packet equal
\* to p.
C1_RoundTrip ==
    pc = "decoded" => dec_out = DecodeOk(packet)

-----------------------------------------------------------------------------
(* Properties of decode (SpecDecode).                                      *)

IsProperPrefix(a, b) == Len(a) < Len(b) /\ a = SubSeq(b, 1, Len(a))

\* buf is a valid encoding cut inside a field: every field is a multiple of
\* 4 bytes long, so a cut at any other length is inside one
TruncatedMidField(buf) ==
    /\ Len(buf) % 4 # 0
    /\ \E p \in SamplePackets : IsProperPrefix(buf, encode(p).bytes)

\* C9: decode ends with a packet or an error for every buffer, the empty
\* one included, without a panic, and a buffer cut in the middle of a field
\* gives the TruncatedValue error.
C9_DecodeTotal ==
    pc = "decoded" =>
        /\ dec_out.res \in {"Ok", "Err"}
        /\ TruncatedMidField(msg) => dec_out = DecodeErr("TruncatedValue")

HasNul(buf) == \E i \in 1..Len(buf) : buf[i] = 0

\* the bytes of the address: those before the first NUL, or all of them
AddressBytes(buf) == SubSeq(buf, 1, read_until(buf, 0, 0) - (IF HasNul(buf) THEN 1 ELSE 0))

\* C10: for a buffer that starts with '/', decode fails with
\* UnterminatedString if no NUL follows and with an error if the address is
\* not UTF-8; no Message is returned in either case, nor after a failure to
\* read the address.
C10_AddressErrorsReported ==
    (pc = "decoded" /\ Len(msg) > 0 /\ msg[1] = Slash) =>
        /\ ~HasNul(msg) => dec_out = DecodeErr("UnterminatedString")
        /\ ~Utf8Valid(AddressBytes(msg)) => dec_out.res = "Err"
        /\ (\E i \in 1..Len(stdout) : stdout[i].fmt = "{}") => dec_out.res # "Ok"

====
